---- MODULE Spec2Model ----
(***************************************************************************)
(* StyloSphere AI: the App component (gallery store, persistence to        *)
(* localStorage, tab router, hand-off slot) and the generation workflows   *)
(* it mounts.  React state is modelled as the committed value of each      *)
(* useState cell plus the queue of gallery updaters that setGalleryImages  *)
(* has enqueued and the next render will apply.                            *)
(***************************************************************************)
EXTENDS Integers, Sequences, FiniteSets, TLC

\* ------------------------------------------------------------------ bounds
MaxClock == 1      \* Date.now() reads a value in 0..MaxClock
MaxRand == 1       \* Math.random() returns one of MaxRand values
MaxAppends == 3    \* direct calls of handleAddToGallery in one behaviour
MaxSaves == 1      \* results the user saves in one behaviour
MaxPending == 2    \* gallery updaters enqueued before a render applies them
MaxRequests == 2   \* service calls awaiting their answer at one time
MaxSelections == 3 \* file selections in the clothing input of one instance

Clock == 0..MaxClock
Rand == 0..(MaxRand - 1)

\* ------------------------------------------------------- JavaScript values
\* A value held by the galleryImages state cell.  JSON.parse may hand back
\* something that is not an array, so the cell is tagged with its JS type.
Array(s) == [t |-> "array", v |-> s]
JSObject == [t |-> "object", v |-> <<>>]
JSNull == [t |-> "null", v |-> <<>>]

IsArray(val) == val.t = "array"

\* ImageFile (types.ts); null is NoFile.  A file name is kept as the parts the
\* workflows assemble it from: `${prefix}${stem}${stamp}${suffix}`.
NoName == [prefix |-> "", stem |-> "", stamp |-> 0 - 1, suffix |-> ""]
Name(prefix, stem, stamp, suffix) ==
  [prefix |-> prefix, stem |-> stem, stamp |-> stamp, suffix |-> suffix]
NoFile == [base64 |-> "", mimeType |-> "", name |-> NoName]

\* GalleryImage (types.ts).  id is the string `${Date.now()}-${Math.random()}`,
\* kept as the pair it is printed from; seq is a history field (the ordinal of
\* the handleAddToGallery call that built the entry), not program data.
NoImage ==
  [base64 |-> "", mimeType |-> "", name |-> NoName, prompt |-> "",
   id |-> <<0, 0>>, timestamp |-> 0, seq |-> 0]

\* The record of localStorage under the key 'styloSphereGallery': absent, or
\* a text.  A text is its JSON syntax class and, for an array, the serialized
\* members in order.
NoItem == [present |-> FALSE, syntax |-> "none", items |-> <<>>]
Text(syntax, items) == [present |-> TRUE, syntax |-> syntax, items |-> items]

\* Property order of {...imageData, id, timestamp}.
StringifyImage(e) ==
  <<e.base64, e.mimeType, e.name, e.prompt, e.id, e.timestamp, e.seq>>

ParseImage(tok) ==
  [base64 |-> tok[1], mimeType |-> tok[2], name |-> tok[3], prompt |-> tok[4],
   id |-> tok[5], timestamp |-> tok[6], seq |-> tok[7]]

\* JSON.parse that hands the members back in reverse order.
JSONparseReversed(text) ==
  IF text.syntax = "array"
  THEN [ok |-> TRUE,
        val |-> Array([i \in 1..Len(text.items) |->
                         ParseImage(text.items[Len(text.items) + 1 - i])])]
  ELSE IF text.syntax = "object" THEN [ok |-> TRUE, val |-> JSObject]
  ELSE IF text.syntax = "null" THEN [ok |-> TRUE, val |-> JSNull]
  ELSE [ok |-> FALSE, val |-> JSNull]

JSONstringify(val) ==
  Text(val.t, [i \in 1..Len(val.v) |-> StringifyImage(val.v[i])])

\* JSON.parse: throws (ok = FALSE) on the empty string and on malformed text.
JSONparse(text) ==
  IF text.syntax = "array"
  THEN [ok |-> TRUE,
        val |-> Array([i \in 1..Len(text.items) |-> ParseImage(text.items[i])])]
  ELSE IF text.syntax = "object" THEN [ok |-> TRUE, val |-> JSObject]
  ELSE IF text.syntax = "null" THEN [ok |-> TRUE, val |-> JSNull]
  ELSE [ok |-> FALSE, val |-> JSNull]

\* `if (storedImages)`: null and the empty string are falsy.
Truthy(text) == text.present /\ text.syntax # "empty"

\* --------------------------------------------------------- gallery updaters
\* What setGalleryImages was called with: a value (load effect) or one of the
\* two functional updaters.
SetTo(val) == [op |-> "set", val |-> val, img |-> NoImage, id |-> <<0, 0>>]
AddOp(img) == [op |-> "add", val |-> JSNull, img |-> img, id |-> <<0, 0>>]
DelOp(id) == [op |-> "del", val |-> JSNull, img |-> NoImage, id |-> id]

\* [newImage, ...galleryImages] over the galleryImages of the first render,
\* which a useCallback with no dependencies keeps for good.
PrependToMountValue(newImage, prev) == <<newImage>>

\* prev => [...prev, newImage]
AppendAtEnd(newImage, prev) == prev \o <<newImage>>

\* prev => [newImage, ...prev]
Prepend(newImage, prev) == <<newImage>> \o prev

\* Removal by prev.splice(prev.findIndex(img => img.id === id), 1): an index
\* of -1 removes the last member.
SpliceAtIndexOf(prev, id) ==
  IF prev = <<>> THEN prev
  ELSE IF \E i \in 1..Len(prev) : prev[i].id = id
  THEN LET k == CHOOSE i \in 1..Len(prev) :
                  /\ prev[i].id = id
                  /\ \A j \in 1..(i - 1) : prev[j].id # id
       IN SubSeq(prev, 1, k - 1) \o SubSeq(prev, k + 1, Len(prev))
  ELSE SubSeq(prev, 1, Len(prev) - 1)

\* prev => prev.filter(img => img.id !== id)
Filter(prev, id) == SelectSeq(prev, LAMBDA img : img.id # id)

\* Spreading or filtering a value that is not an array throws a TypeError.
Throws(u, prev) == u.op \in {"add", "del"} /\ ~IsArray(prev)

ApplyUpdate(u, prev) ==
  IF u.op = "set" THEN u.val
  ELSE IF u.op = "add" THEN Array(Prepend(u.img, prev.v))
  ELSE Array(Filter(prev.v, u.id))

RECURSIVE ApplyQueue(_, _)
ApplyQueue(q, prev) ==
  IF q = <<>> THEN [threw |-> FALSE, val |-> prev]
  ELSE IF Throws(Head(q), prev) THEN [threw |-> TRUE, val |-> prev]
  ELSE ApplyQueue(Tail(q), ApplyUpdate(Head(q), prev))

Ids(list) == {list[i].id : i \in 1..Len(list)}


\* ----------------------------------------------------------------- state
VARIABLES
  phase,             \* "load", "persist": the two mount effects still to run;
                     \* "idle": the event loop; "crashed": a render threw and
                     \* React unmounted the tree; "stopped": the page is gone
  activeTab,         \* App: useState<AppTab>
  videoSourceImage,  \* App: the hand-off slot
  galleryImages,     \* App: the committed value of the gallery state cell
  queue,             \* updaters passed to setGalleryImages, not yet rendered
  localStorage,      \* the record under 'styloSphereGallery'
  wf,                \* state cells of the workflow component now mounted
  selectedImage,     \* Gallery: the entry shown in the detail view
  requests,          \* service calls awaiting their answer; live: the
                     \* component instance that issued the call is mounted
  aistudio,          \* whether the host exposes window.aistudio
  seqNo,             \* history: handleAddToGallery calls so far
  appendCalls,       \* history: handleAddToGallery calls of this page load
  fromEmpty,         \* history: this page load hydrated nothing and no
                     \* remove was called since
  safe,              \* history: what the record held when the mutation now
                     \* in flight was issued, less what was asked removed
  persisted,         \* history: the list given to the last setItem that
                     \* succeeded
  loadedFrom,        \* history: persisted, as of the start of this page load
  lastRender,        \* history: the updaters the last render applied, and
                     \* the list it applied them to
  lastSlot,          \* history: the hand-off slot as the tab click just
                     \* handled found it
  lastAnswer,        \* history: the call whose answer was just handled,
                     \* and the message it was rejected with
  lastEvent          \* history: the handler, effect or step that ran last

appVars == <<phase, activeTab, videoSourceImage, galleryImages, queue,
             localStorage, wf, selectedImage, requests, aistudio>>
histVars == <<seqNo, appendCalls, fromEmpty, safe, persisted, loadedFrom,
              lastRender, lastSlot, lastAnswer, lastEvent>>
vars == <<appVars, histVars>>

\* ------------------------------------------------------------- types.ts
OUTFIT_STUDIO == "Outfit Studio"
IMAGE_GENERATOR == "Image Generator"
IMAGE_EDITOR == "Image Editor"
TIKTOK_SHOP_CREATOR == "TikTok Shop Creator"
STYLE_TRANSFER == "Style Transfer"
VIDEO_GENERATOR == "Video Generator"
GALLERY == "My Gallery"

AppTab ==
  {OUTFIT_STUDIO, IMAGE_GENERATOR, IMAGE_EDITOR, TIKTOK_SHOP_CREATOR,
   STYLE_TRANSFER, VIDEO_GENERATOR, GALLERY}

\* ------------------------------------------------------- history updates
NoPersist == [has |-> FALSE, val |-> Array(<<>>)]
NoRender ==
  [acted |-> FALSE, queue |-> <<>>, before |-> Array(<<>>), wrote |-> FALSE]

\* lastRender describes the step just taken only.
NoAnswer ==
  [live |-> FALSE, latest |-> FALSE, tab |-> "", kind |-> "", message |-> ""]

Did(name) ==
  /\ lastEvent' = name
  /\ lastRender' = NoRender
  /\ lastSlot' = NoFile
  /\ lastAnswer' = NoAnswer

InFlight == \E i \in 1..Len(queue) : queue[i].op \in {"add", "del"}

\* The images a record holds, when it is the text of an array.
Held(text) ==
  IF text.present /\ text.syntax = "array"
  THEN {ParseImage(text.items[i]) : i \in 1..Len(text.items)}
  ELSE {}

\* The entries of the store as the next render will leave it.
Live ==
  LET r == ApplyQueue(queue, galleryImages)
  IN IF r.threw \/ ~IsArray(r.val) THEN {}
     ELSE {r.val.v[i] : i \in 1..Len(r.val.v)}

\* The entries the record holds that no earlier mutation has removed: what a
\* mutation issued now must not lose.  While another mutation is in flight
\* the set taken when the first one was issued stands.
Kept == IF InFlight THEN safe ELSE Held(localStorage) \cap Live

KeptAfter(id) == {e \in Kept : e.id # id}

\* ------------------------------------------------------------------- App
\* handleAddToGallery(imageData): now is what Date.now() reads while newImage
\* is built (id and timestamp are read in the same statement), rnd the value
\* of Math.random().
NewImage(imageData, now, rnd) ==
  [base64 |-> imageData.base64, mimeType |-> imageData.mimeType,
   name |-> imageData.name, prompt |-> imageData.prompt,
   id |-> <<now, rnd>>, timestamp |-> now, seq |-> seqNo + 1]

handleAddToGallery(imageData, now, rnd) ==
  /\ queue' = Append(queue, AddOp(NewImage(imageData, now, rnd)))
  /\ seqNo' = seqNo + 1
  /\ appendCalls' = appendCalls + 1
  /\ safe' = Kept
  /\ UNCHANGED <<fromEmpty, persisted, loadedFrom>>

handleDeleteFromGallery(id) ==
  /\ queue' = Append(queue, DelOp(id))
  /\ fromEmpty' = FALSE
  /\ safe' = KeptAfter(id)
  /\ UNCHANGED <<seqNo, appendCalls, persisted, loadedFrom>>

\* An effect that serializes the galleryImages of the render before.
setItemOfCommitted(val, ok) ==
  /\ localStorage' = IF ok THEN JSONstringify(galleryImages) ELSE localStorage
  /\ persisted' = IF ok THEN [has |-> TRUE, val |-> val] ELSE persisted

\* removeItem before setItem: a write that throws leaves no record.
setItemClearsFirst(val, ok) ==
  /\ localStorage' = IF ok THEN JSONstringify(val) ELSE NoItem
  /\ persisted' = IF ok THEN [has |-> TRUE, val |-> val] ELSE persisted

\* localStorage.setItem inside try/catch: the write commits whole or throws
\* (quota) and leaves the record as it was.
setItem(val, ok) ==
  /\ localStorage' = IF ok THEN JSONstringify(val) ELSE localStorage
  /\ persisted' = IF ok THEN [has |-> TRUE, val |-> val] ELSE persisted

\* First effect of App (mount only).
LoadEffect ==
  /\ phase = "load"
  /\ phase' = "persist"
  /\ Did("load effect")
  /\ UNCHANGED <<requests, aistudio>>
  /\ LET storedImages == localStorage
         parsed == JSONparse(storedImages)
     IN IF Truthy(storedImages) /\ parsed.ok
        THEN /\ queue' = Append(queue, SetTo(parsed.val))
             /\ fromEmpty' = (IsArray(parsed.val) /\ parsed.val.v = <<>>)
        ELSE /\ queue' = queue
             /\ fromEmpty' = TRUE
  /\ UNCHANGED <<activeTab, videoSourceImage, galleryImages, localStorage, wf,
                 selectedImage>>
  /\ UNCHANGED <<seqNo, appendCalls, safe, persisted, loadedFrom>>

\* Second effect of App, as it runs on mount: galleryImages is still the
\* initial [].  writes is the set of outcomes of setItem that are explored.
PersistEffect(writes) ==
  /\ phase = "persist"
  /\ phase' = "idle"
  /\ Did("persist effect")
  /\ UNCHANGED <<requests, aistudio>>
  /\ \E ok \in writes : setItem(galleryImages, ok)
  /\ UNCHANGED <<activeTab, videoSourceImage, galleryImages, queue, wf,
                 selectedImage>>
  /\ UNCHANGED <<seqNo, appendCalls, fromEmpty, safe, loadedFrom>>

\* Gallery reads images.length and calls images.map: both fail on a value
\* that is not an array.
GalleryThrows(images) == ~IsArray(images)

\* The render that applies the queued updaters, followed by the second effect
\* of App, whose dependency galleryImages has changed.
Render(writes) ==
  /\ phase = "idle"
  /\ queue # <<>>
  /\ queue' = <<>>
  /\ lastEvent' = "render"
  /\ lastSlot' = NoFile
  /\ lastAnswer' = NoAnswer
  /\ UNCHANGED <<requests, aistudio>>
  /\ LET r == ApplyQueue(queue, galleryImages)
         done(ok) == [acted |-> TRUE, queue |-> queue,
                      before |-> galleryImages, wrote |-> ok]
     IN IF r.threw \/ (activeTab = GALLERY /\ GalleryThrows(r.val))
        THEN /\ phase' = "crashed"
             /\ lastRender' = done(FALSE)
             /\ UNCHANGED <<galleryImages, localStorage, persisted>>
        ELSE /\ phase' = "idle"
             /\ galleryImages' = r.val
             /\ \E ok \in writes : setItem(r.val, ok) /\ lastRender' = done(ok)
  /\ UNCHANGED <<activeTab, videoSourceImage, wf, selectedImage>>
  /\ UNCHANGED <<seqNo, appendCalls, fromEmpty, safe, loadedFrom>>

\* --------------------------------------------------- workflow components
\* The state cells of the component renderActiveTab mounts.  imgA is
\* personImage / inputImage / contentImage, imgB is styleImage; result.made
\* and result.clicks are history fields: the seq of the entries built for the
\* held result and the save triggers it received (counted up to 2).
NoResult ==
  [held |-> FALSE, file |-> NoFile, saved |-> FALSE, made |-> {}, clicks |-> 0]

\* A check that assumes nothing without window.aistudio.
KeyGateAssumesNothing(w) ==
  [w EXCEPT !.apiKeyReady = FALSE, !.isChecking = aistudio, !.hasKey = FALSE]

\* ApiKeySelector, mounted by VideoGenerator while apiKeyReady is false: its
\* effect runs checkApiKey, which without window.aistudio reaches
\* setHasKey(true) and onKeyReady() before any await, and otherwise awaits
\* hasSelectedApiKey().  The cells are apiKeyReady, isChecking and hasKey.
KeyGate(w) ==
  IF aistudio
  THEN [w EXCEPT !.apiKeyReady = FALSE, !.isChecking = TRUE,
                 !.hasKey = FALSE]
  ELSE [w EXCEPT !.apiKeyReady = TRUE, !.isChecking = FALSE,
                 !.hasKey = TRUE]

\* The initial values of the useState cells of the component of a tab.
\* asked is a history field: the prompt the last generate call was given.
\* previews is the state cell of the clothing ImageInput and reading its
\* handleFileChange calls that await their FileReaders; picked, completed
\* and removed are history fields: the selections made, the files of the
\* selections whose reading completed and the files the user removed.
Cells(tab, sourceImage) ==
  [prompt |-> "",
   imgA |-> IF tab = VIDEO_GENERATOR THEN sourceImage ELSE NoFile,
   imgB |-> NoFile,
   clothingImages |-> <<>>,
   previews |-> <<>>,
   reading |-> <<>>,
   picked |-> 0,
   completed |-> {},
   removed |-> {},
   isLoading |-> FALSE,
   isEnhancing |-> FALSE,
   asked |-> "",
   error |-> "",
   result |-> NoResult,
   apiKeyReady |-> FALSE,
   isChecking |-> FALSE,
   hasKey |-> FALSE]

\* VideoGenerator: useState<ImageFile | null>(initialImage).
FreshWf(tab, sourceImage) ==
  IF tab = VIDEO_GENERATOR THEN KeyGate(Cells(tab, sourceImage))
  ELSE Cells(tab, sourceImage)

NoSelection == [open |-> FALSE, image |-> NoImage]

\* The tabs whose component holds a result that can be saved.
SavingTabs == {OUTFIT_STUDIO, IMAGE_GENERATOR, IMAGE_EDITOR, STYLE_TRANSFER}

\* The tabs whose component calls the AI service.
ServiceTabs == SavingTabs \cup {VIDEO_GENERATOR}

\* renderActiveTab: the components <main> shows for a value of activeTab.
renderActiveTab(tab) ==
  IF tab = OUTFIT_STUDIO THEN {"OutfitStudio"}
  ELSE IF tab = IMAGE_GENERATOR THEN {"ImageGenerator"}
  ELSE IF tab = IMAGE_EDITOR THEN {"ImageEditor"}
  ELSE IF tab = STYLE_TRANSFER THEN {"StyleTransfer"}
  ELSE IF tab = VIDEO_GENERATOR THEN {"VideoGenerator"}
  ELSE IF tab = GALLERY THEN {"Gallery"}
  ELSE {}

\* Inputs the user can supply.
Prompts == {"", "p"}
Files == {[base64 |-> "u", mimeType |-> "image/png",
           name |-> Name("", "a", 0 - 1, ".png")]}
\* What the AI service answers: the payload of a data URL of type image/png,
\* or a failure message.
Payloads == {"r1"}
Quota == "quota exceeded"
Failures == {Quota, "Requested entity was not found."}
\* What enhancePrompt answers.
Enhanced == {"e"}
\* errorMessage.includes('Requested entity was not found')
KeyNotFound(message) == message = "Requested entity was not found."

\* A generate button that stays enabled during the call.
GenerateDisabledUnlessLoading(tab, w) ==
  IF tab = OUTFIT_STUDIO
  THEN w.imgA = NoFile \/ Len(w.clothingImages) = 0
  ELSE IF tab = IMAGE_GENERATOR THEN w.isEnhancing \/ w.prompt = ""
  ELSE IF tab = IMAGE_EDITOR THEN w.prompt = "" \/ w.imgA = NoFile
  ELSE IF tab = STYLE_TRANSFER THEN w.imgA = NoFile \/ w.imgB = NoFile
  ELSE ~w.apiKeyReady \/ w.imgA = NoFile

\* `disabled` of the generate button; VideoGenerator renders the button only
\* when apiKeyReady.
GenerateDisabled(tab, w) ==
  IF tab = OUTFIT_STUDIO
  THEN w.isLoading \/ w.imgA = NoFile \/ Len(w.clothingImages) = 0
  ELSE IF tab = IMAGE_GENERATOR
  THEN w.isLoading \/ w.isEnhancing \/ w.prompt = ""
  ELSE IF tab = IMAGE_EDITOR
  THEN w.isLoading \/ w.prompt = "" \/ w.imgA = NoFile
  ELSE IF tab = STYLE_TRANSFER
  THEN w.isLoading \/ w.imgA = NoFile \/ w.imgB = NoFile
  ELSE ~w.apiKeyReady \/ w.isLoading \/ w.imgA = NoFile

\* `disabled` of the enhance button of ImageGenerator.
EnhanceDisabled(w) == w.isLoading \/ w.isEnhancing \/ w.prompt = ""

\* The validation at the head of handleGenerate: the message, or "" to go on.
Validate(tab, w) ==
  IF tab = OUTFIT_STUDIO
  THEN IF w.imgA = NoFile THEN "Please upload a photo of the person."
       ELSE IF Len(w.clothingImages) = 0
       THEN "Please upload at least one clothing item."
       ELSE ""
  ELSE IF tab = IMAGE_GENERATOR
  THEN IF w.prompt = "" THEN "Please enter a prompt." ELSE ""
  ELSE IF tab = IMAGE_EDITOR
  THEN IF w.prompt = "" THEN "Please enter an editing instruction."
       ELSE IF w.imgA = NoFile THEN "Please upload an image to edit."
       ELSE ""
  ELSE IF tab = STYLE_TRANSFER
  THEN IF w.imgA = NoFile THEN "Please upload a content image."
       ELSE IF w.imgB = NoFile THEN "Please upload a style image."
       ELSE ""
  ELSE IF w.imgA = NoFile THEN "Please upload an image to start."
       ELSE IF ~w.apiKeyReady
       THEN "API Key is not ready. Please select an API key."
       ELSE ""

\* handleGenerate up to its await.
\* A handleGenerate that leaves the result of the call before in place.
handleGenerateKeepsResult(tab, w) ==
  IF Validate(tab, w) # ""
  THEN [w EXCEPT !.error = Validate(tab, w)]
  ELSE [w EXCEPT !.isLoading = TRUE, !.error = "", !.asked = w.prompt]

handleGenerate(tab, w) ==
  IF Validate(tab, w) # ""
  THEN [w EXCEPT !.error = Validate(tab, w)]
  ELSE [w EXCEPT !.isLoading = TRUE, !.error = "", !.result = NoResult,
                 !.asked = w.prompt]

\* What the component keeps of the data URL the service returned.
ResultFile(tab, payload) ==
  IF tab = OUTFIT_STUDIO
  THEN [base64 |-> payload, mimeType |-> "image/png",
        name |-> Name("", "outfit", 0 - 1, ".png")]
  ELSE [base64 |-> payload, mimeType |-> "image/png", name |-> NoName]

\* A response that installs its result as already saved.
ResolvedSaved(tab, w, payload) ==
  [w EXCEPT !.result = [NoResult EXCEPT !.held = TRUE, !.saved = TRUE,
                                        !.file = ResultFile(tab, payload)],
            !.isLoading = FALSE]

\* handleGenerate after its await: try / catch / finally.
Resolved(tab, w, payload) ==
  [w EXCEPT !.result = [NoResult EXCEPT !.held = TRUE,
                                        !.file = ResultFile(tab, payload)],
            !.isLoading = FALSE]

Rejected(w, message) == [w EXCEPT !.error = message, !.isLoading = FALSE]

\* The catch of VideoGenerator.handleGenerate: resetApiKey() brings the
\* ApiKeySelector back, which checks again.
KeyMessage == "API Key not found or invalid. Please select your key again."

VideoRejected(w, message) ==
  IF KeyNotFound(message)
  THEN KeyGate([w EXCEPT !.error = KeyMessage, !.isLoading = FALSE])
  ELSE Rejected(w, message)

\* {error && <div>{error}</div>}: in VideoGenerator inside the branch that
\* is rendered when apiKeyReady.
ErrorShown(tab, w) ==
  w.error # "" /\ (tab = VIDEO_GENERATOR => w.apiKeyReady)

\* handleEnhancePrompt up to its await, and after it.
handleEnhancePrompt(w) ==
  IF w.prompt = "" THEN w ELSE [w EXCEPT !.isEnhancing = TRUE, !.error = ""]

EnhanceResolved(w, enhancedPrompt) ==
  [w EXCEPT !.prompt = enhancedPrompt, !.isEnhancing = FALSE]

EnhanceRejected(w, message) ==
  [w EXCEPT !.error = message, !.isEnhancing = FALSE]

\* `Style transfer between ${contentImage?.name || 'content'} and
\* ${styleImage?.name || 'style'}`, for the one file name of Files.
StylePrompt(w) ==
  IF w.imgA = NoFile
  THEN IF w.imgB = NoFile THEN "Style transfer between content and style"
       ELSE "Style transfer between content and a.png"
  ELSE IF w.imgB = NoFile THEN "Style transfer between a.png and style"
       ELSE "Style transfer between a.png and a.png"

\* The imageData handleSaveToGallery passes to onAddToGallery; now is the
\* Date.now() StyleTransfer puts in the file name.
ImageData(tab, w, now) ==
  IF tab = OUTFIT_STUDIO
  THEN [base64 |-> w.result.file.base64, mimeType |-> w.result.file.mimeType,
        name |-> w.result.file.name,
        prompt |-> "Outfit created in StyloSphere Studio"]
  ELSE IF tab = IMAGE_GENERATOR
  THEN [base64 |-> w.result.file.base64, mimeType |-> "image/jpeg",
        name |-> Name("", w.prompt, 0 - 1, ".jpg"), prompt |-> w.prompt]
  ELSE IF tab = IMAGE_EDITOR
  THEN [base64 |-> w.result.file.base64, mimeType |-> w.result.file.mimeType,
        name |-> Name("edited_",
                      IF w.imgA = NoFile THEN "image" ELSE w.imgA.name.stem,
                      0 - 1, ".png"),
        prompt |-> w.prompt]
  ELSE [base64 |-> w.result.file.base64, mimeType |-> w.result.file.mimeType,
        name |-> Name("style_transfer_", "", now, ".png"),
        prompt |-> StylePrompt(w)]

\* A save that leaves the flag as it was.
MarkSavedKeepsFlag(prev) == prev

\* prev => (prev ? { ...prev, saved: true } : null)
MarkSaved(prev) == IF prev.held THEN [prev EXCEPT !.saved = TRUE] ELSE prev

\* ------------------------------------------------------------ user events
\* A click is handled, and the state it sets is rendered, before the next
\* event is taken: handlers run only when no update is waiting.
Ready == phase = "idle" /\ queue = <<>>

KeepStore ==
  UNCHANGED <<galleryImages, queue, localStorage, aistudio, seqNo,
              appendCalls, fromEmpty, safe, persisted, loadedFrom>>

\* App.handleOutfitCreated(image)
handleOutfitCreated(image) ==
  /\ videoSourceImage' = image
  /\ activeTab' = VIDEO_GENERATOR
  /\ wf' = FreshWf(VIDEO_GENERATOR, image)

\* A tab click that leaves the slot alone.
SlotKept(tab) == videoSourceImage

\* A tab click that empties the slot whatever the tab.
SlotCleared(tab) == NoFile

\* if(tab !== AppTab.VIDEO_GENERATOR) setVideoSourceImage(null)
SlotAfter(tab) == IF tab # VIDEO_GENERATOR THEN NoFile ELSE videoSourceImage

\* onClick of a TabButton.  A tab with no case in renderActiveTab mounts
\* nothing; clicking the active tab keeps the mounted component.
SelectTab(tab) ==
  /\ Ready
  /\ lastEvent' = "select tab"
  /\ lastRender' = NoRender
  /\ lastSlot' = videoSourceImage
  /\ lastAnswer' = NoAnswer
  /\ videoSourceImage' = SlotAfter(tab)
  /\ activeTab' = tab
  /\ IF tab = GALLERY /\ GalleryThrows(galleryImages)
     THEN phase' = "crashed" /\ UNCHANGED <<wf, selectedImage>>
     ELSE /\ phase' = phase
          /\ wf' = IF tab = activeTab THEN wf
                   ELSE FreshWf(tab, videoSourceImage')
          /\ selectedImage' = IF tab = activeTab THEN selectedImage
                              ELSE NoSelection
  /\ KeepStore

\* onImageChange of the ImageInput slots and onChange of the prompt.
SetImage(slot, file) ==
  /\ Ready
  /\ activeTab \in {OUTFIT_STUDIO, IMAGE_EDITOR, STYLE_TRANSFER,
                    VIDEO_GENERATOR}
  /\ activeTab = VIDEO_GENERATOR =>
       wf.apiKeyReady /\ videoSourceImage = NoFile /\ slot = "A"
  /\ slot = "B" => activeTab = STYLE_TRANSFER
  /\ slot = "clothing" => activeTab = OUTFIT_STUDIO
  /\ Did("set image")
  /\ UNCHANGED requests
  /\ wf' = IF slot = "A" THEN [wf EXCEPT !.imgA = file]
           ELSE IF slot = "B" THEN [wf EXCEPT !.imgB = file]
           ELSE [wf EXCEPT !.clothingImages =
                              IF file = NoFile THEN <<>> ELSE <<file>>,
                           !.previews =
                              IF file = NoFile THEN <<>> ELSE <<file>>]
  /\ UNCHANGED <<phase, activeTab, videoSourceImage, selectedImage>>
  /\ KeepStore

\* The file the user picks in the k-th selection: a file not picked before.
Chosen(k) ==
  [base64 |-> "c", mimeType |-> "image/png",
   name |-> Name("", "c", k, ".png")]

\* ImageInput.handleFileChange (allowMultiple) up to its await: the call
\* keeps the previews of the render its closure was made in.
handleFileChange(w, files) ==
  [w EXCEPT !.reading = Append(@, [previews |-> w.previews, files |-> files]),
            !.picked = @ + 1]

\* handleFileChange after its await: updatedImages = [...previews,
\* ...newImages], setPreviews(updatedImages), onImageChange(updatedImages).
FilesRead(w, i) ==
  LET call == w.reading[i]
      updatedImages == call.previews \o call.files
  IN [w EXCEPT !.previews = updatedImages,
               !.clothingImages = updatedImages,
               !.reading = SubSeq(@, 1, i - 1) \o SubSeq(@, i + 1, Len(@)),
               !.completed =
                  @ \cup {call.files[k] : k \in 1..Len(call.files)}]

\* ImageInput.handleRemove(index): splice(index, 1) on a copy of previews.
handleRemove(w, index) ==
  LET updatedPreviews ==
        SubSeq(w.previews, 1, index - 1)
          \o SubSeq(w.previews, index + 1, Len(w.previews))
  IN [w EXCEPT !.previews = updatedPreviews,
               !.clothingImages = updatedPreviews,
               !.removed = @ \cup {w.previews[index]}]

\* The user picks a file in the clothing input of OutfitStudio.
SelectFiles ==
  /\ Ready
  /\ activeTab = OUTFIT_STUDIO
  /\ wf.picked < MaxSelections
  /\ Did("handleFileChange")
  /\ UNCHANGED requests
  /\ wf' = handleFileChange(wf, <<Chosen(wf.picked + 1)>>)
  /\ UNCHANGED <<phase, activeTab, videoSourceImage, selectedImage>>
  /\ KeepStore

\* The FileReaders of a selection are done and its call goes on.
Decoded(i) ==
  /\ Ready
  /\ activeTab = OUTFIT_STUDIO
  /\ i \in 1..Len(wf.reading)
  /\ Did("files read")
  /\ UNCHANGED requests
  /\ wf' = FilesRead(wf, i)
  /\ UNCHANGED <<phase, activeTab, videoSourceImage, selectedImage>>
  /\ KeepStore

\* A click on the remove button of a preview.
RemoveClick(index) ==
  /\ Ready
  /\ activeTab = OUTFIT_STUDIO
  /\ index \in 1..Len(wf.previews)
  /\ Did("handleRemove")
  /\ UNCHANGED requests
  /\ wf' = handleRemove(wf, index)
  /\ UNCHANGED <<phase, activeTab, videoSourceImage, selectedImage>>
  /\ KeepStore

SetPrompt(text) ==
  /\ Ready
  /\ activeTab \in {IMAGE_GENERATOR, IMAGE_EDITOR, VIDEO_GENERATOR}
  /\ activeTab = VIDEO_GENERATOR => wf.apiKeyReady
  /\ ~wf.isLoading /\ ~wf.isEnhancing
  /\ Did("set prompt")
  /\ UNCHANGED requests
  /\ wf' = [wf EXCEPT !.prompt = text]
  /\ UNCHANGED <<phase, activeTab, videoSourceImage, selectedImage>>
  /\ KeepStore

\* A service call: live while the instance that awaits it is mounted.
\* latest is a history field: no call was issued after this one by the
\* instance that issued it, which is still mounted.
Request(tab, kind) ==
  [live |-> TRUE, latest |-> TRUE, tab |-> tab, kind |-> kind]

\* The calls after one more was issued by the mounted instance.
Issue(tab, kind) ==
  Append([i \in 1..Len(requests) |-> [requests[i] EXCEPT !.latest = FALSE]],
         Request(tab, kind))

Without(i) == SubSeq(requests, 1, i - 1) \o SubSeq(requests, i + 1, Len(requests))

\* The calls the mounted instance is awaiting.
InFlightCalls == {i \in 1..Len(requests) : requests[i].live}

\* The state setters a continuation calls are those of the instance that
\* issued the call, whatever the tab shows now.
BoundToTab(r) == r.tab = activeTab

\* The state setters a continuation calls belong to the instance that issued
\* the call: once it is unmounted they set nothing.
Bound(r) == r.live

\* What becomes of the calls when the mounted component is replaced: the
\* instance is gone, the calls go on.  track: whether the specification
\* follows them to their answer.
Teardown(track) ==
  requests' =
    IF activeTab' = activeTab /\ phase' # "crashed" THEN requests
    ELSE IF track
    THEN [i \in 1..Len(requests) |->
            [requests[i] EXCEPT !.live = FALSE, !.latest = FALSE]]
    ELSE <<>>

GenerateClick ==
  /\ Ready
  /\ activeTab \in ServiceTabs
  /\ ~GenerateDisabled(activeTab, wf)
  /\ Len(requests) < MaxRequests
  /\ Did("handleGenerate")
  /\ wf' = handleGenerate(activeTab, wf)
  /\ requests' = IF Validate(activeTab, wf) = ""
                 THEN Issue(activeTab, "generate")
                 ELSE requests
  /\ UNCHANGED <<phase, activeTab, videoSourceImage, selectedImage>>
  /\ KeepStore

\* A click on the generate button while it is disabled reaches no handler.
DisabledGenerateClick ==
  /\ Ready
  /\ activeTab \in ServiceTabs
  /\ activeTab = VIDEO_GENERATOR => wf.apiKeyReady
  /\ GenerateDisabled(activeTab, wf)
  /\ Did("disabled generate click")
  /\ UNCHANGED <<phase, activeTab, videoSourceImage, selectedImage, wf,
                 requests>>
  /\ KeepStore

EnhanceClick ==
  /\ Ready
  /\ activeTab = IMAGE_GENERATOR
  /\ ~EnhanceDisabled(wf)
  /\ Len(requests) < MaxRequests
  /\ Did("handleEnhancePrompt")
  /\ wf' = handleEnhancePrompt(wf)
  /\ requests' = IF wf.prompt # ""
                 THEN Issue(activeTab, "enhance")
                 ELSE requests
  /\ UNCHANGED <<phase, activeTab, videoSourceImage, selectedImage>>
  /\ KeepStore

\* The continuation of a call that resolved, for the instance it is bound
\* to.
OnResolved(r, w, payload) ==
  IF r.kind = "enhance" THEN EnhanceResolved(w, payload)
  ELSE Resolved(r.tab, w, payload)

OnRejected(r, w, message) ==
  IF r.kind = "enhance" THEN EnhanceRejected(w, message)
  ELSE IF r.tab = VIDEO_GENERATOR THEN VideoRejected(w, message)
  ELSE Rejected(w, message)

Answers(r) == IF r.kind = "enhance" THEN Enhanced ELSE Payloads

Answered(name, r, message) ==
  /\ lastEvent' = name
  /\ lastRender' = NoRender
  /\ lastSlot' = NoFile
  /\ lastAnswer' = [live |-> r.live, latest |-> r.latest, tab |-> r.tab,
                    kind |-> r.kind, message |-> message]

\* The awaited service call settles for the instance that issued it.
ResponseOk(i, payload) ==
  /\ Ready
  /\ i \in 1..Len(requests)
  /\ payload \in Answers(requests[i])
  /\ Answered(IF requests[i].live THEN "response" ELSE "stale response",
              requests[i], "")
  /\ wf' = IF Bound(requests[i]) THEN OnResolved(requests[i], wf, payload)
           ELSE wf
  /\ requests' = Without(i)
  /\ UNCHANGED <<phase, activeTab, videoSourceImage, selectedImage>>
  /\ KeepStore

ResponseFail(i, message) ==
  /\ Ready
  /\ i \in 1..Len(requests)
  /\ Answered(IF requests[i].live THEN "failure" ELSE "stale failure",
              requests[i], message)
  /\ wf' = IF Bound(requests[i]) THEN OnRejected(requests[i], wf, message)
           ELSE wf
  /\ requests' = Without(i)
  /\ UNCHANGED <<phase, activeTab, videoSourceImage, selectedImage>>
  /\ KeepStore

\* hasSelectedApiKey() settles: a key, no key, or a rejection.
KeyStatus(outcome) ==
  /\ Ready
  /\ activeTab = VIDEO_GENERATOR
  /\ wf.isChecking
  /\ Did("checkApiKey")
  /\ wf' = IF outcome = "key"
           THEN [wf EXCEPT !.hasKey = TRUE, !.apiKeyReady = TRUE,
                           !.isChecking = FALSE]
           ELSE [wf EXCEPT !.hasKey = FALSE, !.isChecking = FALSE]
  /\ UNCHANGED <<phase, activeTab, videoSourceImage, selectedImage,
                 requests>>
  /\ KeepStore

\* handleSelectKey: openSelectKey() resolves, or rejects.
SelectKeyClick(opened) ==
  /\ Ready
  /\ activeTab = VIDEO_GENERATOR
  /\ ~wf.apiKeyReady /\ ~wf.isChecking /\ ~wf.hasKey
  /\ aistudio
  /\ Did("handleSelectKey")
  /\ wf' = IF opened THEN [wf EXCEPT !.hasKey = TRUE, !.apiKeyReady = TRUE]
           ELSE wf
  /\ UNCHANGED <<phase, activeTab, videoSourceImage, selectedImage,
                 requests>>
  /\ KeepStore

Counted(n) == IF n < 2 THEN n + 1 ELSE n

\* handleSaveToGallery of the mounted component.
handleSaveToGallery(now, rnd) ==
  IF ~wf.result.held \/ wf.result.saved
  THEN /\ wf' = [wf EXCEPT !.result.clicks = Counted(@)]
       /\ UNCHANGED <<queue, seqNo, appendCalls, fromEmpty, safe, persisted,
                      loadedFrom>>
  ELSE /\ handleAddToGallery(ImageData(activeTab, wf, now), now, rnd)
       /\ wf' = [wf EXCEPT !.result =
                   [MarkSaved(@) EXCEPT !.made = @ \cup {seqNo + 1},
                                        !.clicks = Counted(@)]]

\* The save button is rendered while a result is held, with
\* disabled={result.saved}: a click on it then reaches no handler.
SaveClick ==
  /\ Ready
  /\ activeTab \in SavingTabs
  /\ wf.result.held
  /\ wf.result.made # {} \/ seqNo < MaxSaves
  /\ Did("handleSaveToGallery")
  /\ UNCHANGED <<requests, aistudio>>
  /\ UNCHANGED <<phase, activeTab, videoSourceImage, selectedImage,
                 galleryImages, localStorage>>
  /\ IF wf.result.saved
     THEN /\ wf' = [wf EXCEPT !.result.clicks = Counted(@)]
          /\ UNCHANGED <<queue, seqNo, appendCalls, fromEmpty, safe,
                         persisted, loadedFrom>>
     ELSE \E now \in Clock, rnd \in Rand : handleSaveToGallery(now, rnd)

\* The props App passes to OutfitStudio; the component reads
\* onImageReadyForVideo and onAddToGallery.
OutfitStudioProps == {"onOutfitCreated", "onAddToGallery"}

\* handleCreateVideo: calling a prop that was not passed throws a TypeError
\* out of the click handler, which React reports and survives.
CreateVideoClick ==
  /\ Ready
  /\ activeTab = OUTFIT_STUDIO
  /\ wf.result.held
  /\ Did("handleCreateVideo")
  /\ IF "onImageReadyForVideo" \in OutfitStudioProps
     THEN handleOutfitCreated(wf.result.file)
     ELSE UNCHANGED <<videoSourceImage, activeTab, wf>>
  /\ UNCHANGED <<phase, selectedImage>>
  /\ KeepStore

\* App.handleOutfitCreated called by the component that holds the callback.
OutfitCreated(image) ==
  /\ Ready
  /\ activeTab = OUTFIT_STUDIO
  /\ Did("handleOutfitCreated")
  /\ handleOutfitCreated(image)
  /\ Teardown(TRUE)
  /\ UNCHANGED <<phase, selectedImage>>
  /\ KeepStore

\* ---------------------------------------------------------------- Gallery
\* onClick of a tile, of the backdrop and of the close button.
SelectImage(i) ==
  /\ Ready
  /\ activeTab = GALLERY
  /\ i \in 1..Len(galleryImages.v)
  /\ Did("select image")
  /\ UNCHANGED requests
  /\ selectedImage' = [open |-> TRUE, image |-> galleryImages.v[i]]
  /\ UNCHANGED <<phase, activeTab, videoSourceImage, wf>>
  /\ KeepStore

CloseDetail ==
  /\ Ready
  /\ activeTab = GALLERY
  /\ selectedImage.open
  /\ Did("close detail")
  /\ UNCHANGED requests
  /\ selectedImage' = NoSelection
  /\ UNCHANGED <<phase, activeTab, videoSourceImage, wf>>
  /\ KeepStore

\* A delete that leaves the detail view open.
DetailStays == selectedImage

\* setSelectedImage(null) after onDelete(id).
AfterDelete == NoSelection

\* Gallery.handleDelete(selectedImage.id); confirmed is the answer of
\* window.confirm.
DeleteClick(confirmed) ==
  /\ Ready
  /\ activeTab = GALLERY
  /\ selectedImage.open
  /\ UNCHANGED <<requests, aistudio>>
  /\ UNCHANGED <<phase, activeTab, videoSourceImage, wf, galleryImages,
                 localStorage>>
  /\ IF confirmed
     THEN /\ Did("handleDelete")
          /\ handleDeleteFromGallery(selectedImage.image.id)
          /\ selectedImage' = AfterDelete
     ELSE /\ Did("delete declined")
          /\ UNCHANGED <<selectedImage, queue, seqNo, appendCalls, fromEmpty,
                         safe, persisted, loadedFrom>>

\* ------------------------------------------------------ the page's life
\* The page is closed, reloaded or killed: memory is lost, the record stays.
Crash ==
  /\ phase # "stopped"
  /\ phase' = "stopped"
  /\ Did("stop")
  /\ activeTab' = OUTFIT_STUDIO
  /\ videoSourceImage' = NoFile
  /\ galleryImages' = Array(<<>>)
  /\ queue' = <<>>
  /\ wf' = FreshWf(OUTFIT_STUDIO, NoFile)
  /\ selectedImage' = NoSelection
  /\ requests' = <<>>
  /\ UNCHANGED aistudio
  /\ UNCHANGED <<localStorage, seqNo, appendCalls, fromEmpty, safe,
                 persisted, loadedFrom>>

\* The state after App's first render, before its effects run.
Mounted ==
  /\ phase = "load"
  /\ activeTab = OUTFIT_STUDIO
  /\ videoSourceImage = NoFile
  /\ galleryImages = Array(<<>>)
  /\ queue = <<>>
  /\ wf = FreshWf(OUTFIT_STUDIO, NoFile)
  /\ selectedImage = NoSelection
  /\ requests = <<>>

Restart ==
  /\ phase = "stopped"
  /\ phase' = "load"
  /\ Did("mount")
  /\ UNCHANGED <<requests, aistudio>>
  /\ appendCalls' = 0
  /\ fromEmpty' = TRUE
  /\ safe' = {}
  /\ loadedFrom' = persisted
  /\ UNCHANGED <<activeTab, videoSourceImage, galleryImages, queue, wf,
                 selectedImage>>
  /\ UNCHANGED <<localStorage, seqNo, persisted>>

\* ------------------------------------------------- the store, called directly
\* The two callbacks App hands out, called as the gallery store's append and
\* remove by a caller that may issue several calls before the next render.
StoreInputs ==
  {[base64 |-> b, mimeType |-> "image/png",
    name |-> Name("", "outfit", 0 - 1, ".png"), prompt |-> "p"] :
     b \in Payloads}

StoreIds == Clock \X Rand

Append_(imageData) ==
  /\ phase = "idle"
  /\ Len(queue) < MaxPending
  /\ seqNo < MaxAppends
  /\ Did("append")
  /\ UNCHANGED <<requests, aistudio>>
  /\ \E now \in Clock, rnd \in Rand :
       handleAddToGallery(imageData, now, rnd)
  /\ UNCHANGED <<phase, activeTab, videoSourceImage, galleryImages,
                 localStorage, wf, selectedImage>>

Remove(id) ==
  /\ phase = "idle"
  /\ Len(queue) < MaxPending
  /\ Did("remove")
  /\ UNCHANGED <<requests, aistudio>>
  /\ handleDeleteFromGallery(id)
  /\ UNCHANGED <<phase, activeTab, videoSourceImage, galleryImages,
                 localStorage, wf, selectedImage>>

\* ------------------------------------------------------- specifications
HistInit ==
  /\ seqNo = 0
  /\ appendCalls = 0
  /\ fromEmpty = TRUE
  /\ safe = {}
  /\ persisted = NoPersist
  /\ loadedFrom = NoPersist
  /\ lastRender = NoRender
  /\ lastSlot = NoFile
  /\ lastAnswer = NoAnswer
  /\ lastEvent = "mount"

\* A first visit: nothing is stored under the key.
Init == aistudio = FALSE /\ Mounted /\ localStorage = NoItem /\ HistInit

\* A first visit, in a host with or without window.aistudio.
InitAnyHost ==
  aistudio \in BOOLEAN /\ Mounted /\ localStorage = NoItem /\ HistInit

\* What another writer of the origin, or an older version, may have left
\* under the key.
Records ==
  {NoItem, Text("empty", <<>>), Text("garbage", <<>>), Text("object", <<>>),
   Text("null", <<>>), Text("array", <<>>)}

InitAnyRecord ==
  aistudio = FALSE /\ Mounted /\ localStorage \in Records /\ HistInit

\* writes: the outcomes of localStorage.setItem the specification explores
\* (TRUE: the write commits; FALSE: it throws, as when the quota is used up).
React(writes) ==
  LoadEffect \/ PersistEffect(writes) \/ Render(writes) \/ Crash \/ Restart

\* A click on a tab of the tab bar.
TabClick(track) == (\E tab \in AppTab : SelectTab(tab)) /\ Teardown(track)

\* The steps that replace the mounted component.
Nav(track) ==
  ((\E tab \in AppTab : SelectTab(tab)) \/ CreateVideoClick)
    /\ Teardown(track)

\* The page as its user drives it, in a host without window.aistudio: the
\* tabs, the inputs, generation with one failure message, saving and the
\* gallery.  Calls of torn-down instances are not followed.
Next ==
  \/ React({TRUE})
  \/ Nav(FALSE)
  \/ \E slot \in {"A", "B", "clothing"}, file \in Files \cup {NoFile} :
       SetImage(slot, file)
  \/ \E text \in Prompts : SetPrompt(text)
  \/ GenerateClick
  \/ \E i \in 1..MaxRequests, payload \in Payloads :
       ResponseOk(i, payload)
  \/ \E i \in 1..MaxRequests, message \in {Quota} : ResponseFail(i, message)
  \/ SaveClick
  \/ \E i \in 1..MaxAppends : SelectImage(i)
  \/ CloseDetail
  \/ \E confirmed \in BOOLEAN : DeleteClick(confirmed)

StoreNext ==
  \/ React(BOOLEAN)
  \/ \E imageData \in StoreInputs : Append_(imageData)
  \/ \E id \in StoreIds : Remove(id)

\* The workflows and the hand-off, in either host, with the calls of
\* torn-down instances followed to their answer and the gallery left alone.
FlowNext ==
  \/ LoadEffect
  \/ PersistEffect({TRUE})
  \/ Nav(TRUE)
  \/ \E image \in Files : OutfitCreated(image)
  \/ \E slot \in {"A", "B", "clothing"}, file \in Files \cup {NoFile} :
       SetImage(slot, file)
  \/ \E text \in Prompts : SetPrompt(text)
  \/ GenerateClick
  \/ DisabledGenerateClick
  \/ EnhanceClick
  \/ \E i \in 1..MaxRequests, payload \in Payloads \cup Enhanced :
       ResponseOk(i, payload)
  \/ \E i \in 1..MaxRequests, message \in Failures : ResponseFail(i, message)
  \/ \E outcome \in {"key", "no key", "throws"} : KeyStatus(outcome)
  \/ \E opened \in BOOLEAN : SelectKeyClick(opened)

\* The workflows that need no image, with enhance-prompt and saving.
PromptNext ==
  \/ React({TRUE})
  \/ TabClick(FALSE)
  \/ \E text \in Prompts : SetPrompt(text)
  \/ GenerateClick
  \/ EnhanceClick
  \/ \E i \in 1..MaxRequests, payload \in Payloads \cup Enhanced :
       ResponseOk(i, payload)
  \/ \E i \in 1..MaxRequests, message \in Failures : ResponseFail(i, message)
  \/ SaveClick

\* The image inputs as their user drives them, with the reading of the files
\* of a selection taking its time.
IntakeNext ==
  \/ LoadEffect
  \/ PersistEffect({TRUE})
  \/ TabClick(FALSE)
  \/ \E file \in Files \cup {NoFile} : SetImage("A", file)
  \/ SelectFiles
  \/ \E i \in 1..MaxSelections : Decoded(i)
  \/ \E index \in 1..(2 * MaxSelections) : RemoveClick(index)

Spec == Init /\ [][Next]_vars
SpecIntake == Init /\ [][IntakeNext]_vars
SpecPrompt == Init /\ [][PromptNext]_vars
SpecFlow == InitAnyHost /\ [][FlowNext]_vars
SpecStore == Init /\ [][StoreNext]_vars
SpecLoad == InitAnyRecord /\ [][Next]_vars

\* ------------------------------------------------------------- properties
List == galleryImages.v

PendingAdds == Cardinality({i \in 1..Len(queue) : queue[i].op = "add"})

\* Entries, stored or waiting to be rendered, built for the held result.
MadeInStore ==
  Cardinality({i \in 1..Len(List) : List[i].seq \in wf.result.made})
  + Cardinality({i \in 1..Len(queue) :
                   queue[i].op = "add" /\ queue[i].img.seq \in wf.result.made})

\* C1: however often save is triggered on a held result (once or more), the
\* gallery store gains exactly one entry for it; before the first trigger it
\* has none.
C1_SaveOnce ==
  (phase = "idle" /\ wf.result.held) =>
     /\ MadeInStore = (IF wf.result.clicks >= 1 THEN 1 ELSE 0)
     /\ Cardinality(wf.result.made) = MadeInStore

\* Save was triggered twice on one result and the store holds one entry.
C1_Witness ==
  /\ Ready
  /\ wf.result.held
  /\ wf.result.clicks = 2
  /\ MadeInStore = 1

\* C2: starting from an empty store and with no remove, the length of the
\* list (counting the appends not yet rendered) is the number of append calls.
C2_LengthIsAppends ==
  (phase = "idle" /\ fromEmpty) =>
     /\ IsArray(galleryImages)
     /\ Len(List) + PendingAdds = appendCalls

\* Two appends were issued before one render, which made the list three long.
C2_Witness ==
  /\ fromEmpty
  /\ lastEvent = "render"
  /\ Len(lastRender.queue) = 2
  /\ \A i \in 1..2 : lastRender.queue[i].op = "add"
  /\ Len(List) = 3
  /\ appendCalls = 3

\* C3: the ids of the entries of the store are pairwise distinct.
C3_IdsDistinct ==
  IsArray(galleryImages) =>
     \A i \in 1..Len(List), j \in 1..Len(List) :
        i # j => List[i].id # List[j].id

\* C4: the list is in reverse insertion order, and the render that applies an
\* append leaves the appended entry at index 0.
C4_NewestFirst ==
  IsArray(galleryImages) =>
     /\ \A i \in 1..Len(List), j \in 1..Len(List) :
           i < j => List[i].seq > List[j].seq
     /\ (/\ lastEvent = "render"
         /\ phase = "idle"
         /\ lastRender.queue[Len(lastRender.queue)].op = "add")
        => List[1] = lastRender.queue[Len(lastRender.queue)].img

\* An append was rendered onto a list from which an entry had been removed.
C4_Witness ==
  /\ lastEvent = "render"
  /\ lastRender.queue[Len(lastRender.queue)].op = "add"
  /\ ~fromEmpty
  /\ Len(List) = 2
  /\ List[1].seq = 3
  /\ List[2].seq = 1

\* C5 as stated: when append or remove returns, the record is the
\* serialization of the list including that mutation.
C5_SynchronousPersist ==
  lastEvent \in {"append", "remove"} =>
     localStorage = JSONstringify(ApplyQueue(queue, galleryImages).val)

\* C5 amended: append and remove return with the list and the record as they
\* were; the record equals the serialization of the full list, mutation
\* included, once the render that applies the mutation has run its persist
\* effect and the write succeeded.
C5_PersistAfterRender ==
  [][/\ lastEvent' \in {"append", "remove"} =>
          (localStorage' = localStorage /\ galleryImages' = galleryImages)
     /\ (lastEvent' = "render" /\ lastRender'.wrote) =>
          localStorage' = JSONstringify(galleryImages')]_vars

\* A render applied an append and its effect wrote the two-entry list.
C5_Witness ==
  /\ lastEvent = "render"
  /\ lastRender.wrote
  /\ lastRender.queue[Len(lastRender.queue)].op = "add"
  /\ Len(List) = 2
  /\ localStorage = JSONstringify(galleryImages)

C7_RoundTrip ==
  (/\ lastEvent = "render"
   /\ phase = "idle"
   /\ loadedFrom.has
   /\ Len(lastRender.queue) = 1
   /\ lastRender.queue[1].op = "set")
  => galleryImages = loadedFrom.val

\* A restarted page hydrated a list of two entries.
C7_Witness ==
  /\ lastEvent = "render"
  /\ loadedFrom.has
  /\ Len(lastRender.queue) = 1
  /\ lastRender.queue[1].op = "set"
  /\ Len(List) = 2

\* C8: whatever the record holds, the page does not fail and the gallery in
\* memory is a list, the empty one when load found nothing to hydrate.
C8_LoadNeverFails ==
  /\ phase # "crashed"
  /\ IsArray(galleryImages)
  /\ (lastEvent = "persist effect" /\ queue = <<>>) => List = <<>>

AllDel(q) == \A k \in 1..Len(q) : q[k].op = "del"

\* C9: a render that applies only removes of ids the list does not hold
\* leaves the list as it was; removing the same id twice gives what removing
\* it once gives; neither raises an error.
C9_RemoveIdempotent ==
  (lastEvent = "render" /\ AllDel(lastRender.queue)) =>
     /\ phase = "idle"
     /\ (\A k \in 1..Len(lastRender.queue) :
            lastRender.queue[k].id \notin Ids(lastRender.before.v))
        => galleryImages = lastRender.before
     /\ (/\ Len(lastRender.queue) = 2
         /\ lastRender.queue[1].id = lastRender.queue[2].id)
        => galleryImages =
             ApplyUpdate(lastRender.queue[1], lastRender.before)

\* remove(id) was called twice for an id held by a list of two, and the
\* other entry is what is left.
C9_Witness ==
  /\ lastEvent = "render"
  /\ AllDel(lastRender.queue)
  /\ Len(lastRender.queue) = 2
  /\ lastRender.queue[1].id = lastRender.queue[2].id
  /\ lastRender.queue[1].id \in Ids(lastRender.before.v)
  /\ Len(lastRender.before.v) = 2
  /\ Len(List) = 1

\* C10: "Create Video with this Image" on a held outfit result sets the
\* hand-off slot to the result, makes the video workflow the active tab and
\* gives it the result as its starting image.
C10_HandOff ==
  [][lastEvent' = "handleCreateVideo" =>
       /\ videoSourceImage' = wf.result.file
       /\ activeTab' = VIDEO_GENERATOR
       /\ wf'.imgA = wf.result.file]_vars

\* C11: a click on a tab other than the video tab leaves the hand-off slot
\* empty; the slot is set only while the video tab is active; the video
\* workflow opened by a click from another tab has no starting image.
C11_SlotCleared ==
  [][/\ videoSourceImage' # NoFile => activeTab' = VIDEO_GENERATOR
     /\ (lastEvent' = "select tab" /\ activeTab' # VIDEO_GENERATOR)
          => videoSourceImage' = NoFile
     /\ (lastEvent' = "select tab" /\ activeTab # VIDEO_GENERATOR
          /\ activeTab' = VIDEO_GENERATOR /\ phase' = "idle")
          => wf'.imgA = NoFile]_vars

\* The gallery tab was clicked while the slot held an image: it is empty now.
C11_Witness ==
  /\ lastEvent = "select tab"
  /\ lastSlot # NoFile
  /\ activeTab = GALLERY
  /\ videoSourceImage = NoFile

\* C12: a click on the video tab leaves the hand-off slot as it was, and
\* while the slot is set the video workflow's image is the slot's value.
C12_SlotPreserved ==
  [][/\ (lastEvent' = "select tab" /\ activeTab' = VIDEO_GENERATOR)
          => videoSourceImage' = videoSourceImage
     /\ (videoSourceImage' # NoFile /\ activeTab' = VIDEO_GENERATOR
          /\ phase' = "idle")
          => wf'.imgA = videoSourceImage']_vars

\* The video tab was clicked while the slot held an image: the slot and the
\* workflow still hold it.
C12_Witness ==
  /\ lastEvent = "select tab"
  /\ lastSlot # NoFile
  /\ activeTab = VIDEO_GENERATOR
  /\ videoSourceImage = lastSlot
  /\ wf.imgA = lastSlot

\* C13: whatever tab is active, exactly one component is shown.
C13_OneVisible ==
  phase = "idle" => Cardinality(renderActiveTab(activeTab)) = 1

\* C14: the mounted instance of a workflow never awaits more than one
\* service call, enhance-prompt and generate-image counted together.
C14_OneInFlight == Cardinality(InFlightCalls) <= 1

\* The image generator awaits enhance-prompt with a prompt typed, while the
\* call of an instance torn down earlier is still out: its generate and
\* enhance buttons are disabled.
C14_Witness ==
  /\ Ready
  /\ activeTab = IMAGE_GENERATOR
  /\ wf.isEnhancing
  /\ wf.prompt # ""
  /\ GenerateDisabled(activeTab, wf) /\ EnhanceDisabled(wf)
  /\ Cardinality(InFlightCalls) = 1
  /\ Len(requests) = 2

\* C15: a click on generate while a required input is missing sets the
\* error that names the missing input, and issues no call.
C15_ValidationError ==
  [][(lastEvent' \in {"handleGenerate", "disabled generate click"}
      /\ Validate(activeTab, wf) # "")
     => (wf'.error = Validate(activeTab, wf) /\ requests' = requests)]_vars

\* C16: after a call of the mounted instance is rejected with message m the
\* instance shows m, awaits nothing, and has its inputs as they were.
C16_FailureShown ==
  [][lastEvent' = "failure"
     => /\ wf'.error = lastAnswer'.message
        /\ ~wf'.isLoading /\ ~wf'.isEnhancing
        /\ wf'.prompt = wf.prompt
        /\ wf'.imgA = wf.imgA /\ wf'.imgB = wf.imgB
        /\ wf'.clothingImages = wf.clothingImages]_vars

\* C17: the answer, resolved or rejected, to a call whose instance was torn
\* down changes nothing of the mounted instance, the gallery store or the
\* hand-off slot.
C17_StaleDiscarded ==
  [][lastEvent' \in {"stale response", "stale failure"}
     => UNCHANGED <<wf, activeTab, videoSourceImage, galleryImages, queue,
                    localStorage, selectedImage>>]_vars

\* The answer to a generate call of a torn-down instance arrived while a
\* later instance of the same workflow awaits its own call: it still does,
\* and shows no result.
C17_Witness ==
  /\ lastEvent = "stale response"
  /\ lastAnswer.kind = "generate"
  /\ lastAnswer.tab = activeTab
  /\ wf.isLoading
  /\ ~wf.result.held
  /\ Cardinality(InFlightCalls) = 1

\* C18: an updater that removes is enqueued only by a confirmed delete; a
\* declined one leaves the store and the detail view as they were; a
\* confirmed one closes the detail view, and the render that follows leaves
\* no entry with the deleted id.
C18_DeleteConfirmed ==
  [][/\ (Len(queue') > Len(queue) /\ queue'[Len(queue')].op = "del")
          => lastEvent' = "handleDelete"
     /\ lastEvent' = "delete declined"
          => UNCHANGED <<galleryImages, queue, localStorage, selectedImage>>
     /\ lastEvent' = "handleDelete"
          => /\ queue' = Append(queue, DelOp(selectedImage.image.id))
             /\ ~selectedImage'.open
     /\ (lastEvent' = "render" /\ phase' = "idle")
          => \A i \in 1..Len(queue) :
               queue[i].op = "del" => queue[i].id \notin Ids(galleryImages'.v)
    ]_vars

\* The render after a confirmed delete of the only entry: the list is empty
\* and no detail view is open.
C18_Witness ==
  /\ lastEvent = "render"
  /\ activeTab = GALLERY
  /\ Len(lastRender.queue) = 1
  /\ lastRender.queue[1].op = "del"
  /\ lastRender.queue[1].id \in Ids(lastRender.before.v)
  /\ lastRender.queue[1].id \notin Ids(List)
  /\ ~selectedImage.open

\* C19: when the write of a render throws, the page goes on, the list in
\* memory has the mutations applied and the record is what it was; the
\* page then takes further mutations.
C19_WriteFailureSwallowed ==
  [][(lastEvent' = "render" /\ lastRender'.acted /\ ~lastRender'.wrote
      /\ phase' # "crashed")
     => /\ phase' = "idle"
        /\ galleryImages' = ApplyQueue(queue, galleryImages).val
        /\ localStorage' = localStorage
        /\ queue' = <<>>]_vars

\* The write of the render that applied a second append threw: memory has
\* two entries, the record the one it had.
C19_Witness ==
  /\ lastEvent = "render"
  /\ lastRender.acted /\ ~lastRender.wrote
  /\ phase = "idle"
  /\ Len(List) = 2
  /\ Len(lastRender.before.v) = 1
  /\ localStorage = JSONstringify(lastRender.before)

\* C20: a generate-video call is issued only while apiKeyReady is true, and
\* in a host without window.aistudio the video workflow has apiKeyReady true
\* whenever it is shown.
C20_KeyGate ==
  [][/\ (Len(requests') > Len(requests)
          /\ requests'[Len(requests')].tab = VIDEO_GENERATOR)
          => wf.apiKeyReady
     /\ (activeTab' = VIDEO_GENERATOR /\ ~aistudio' /\ phase' = "idle")
          => (wf'.apiKeyReady /\ ~wf'.isChecking)]_vars

\* Without window.aistudio the video workflow awaits its generate call, no
\* key having been selected by the user.
C20_Witness ==
  /\ ~aistudio
  /\ activeTab = VIDEO_GENERATOR
  /\ wf.apiKeyReady
  /\ wf.isLoading
  /\ \E i \in InFlightCalls : requests[i].tab = VIDEO_GENERATOR

\* C21: a video call rejected for its key leaves the key message as the
\* error, shown, and apiKeyReady false; apiKeyReady then becomes true again
\* only by the user's key selection.
C21_KeyReselect ==
  [][/\ (lastEvent' = "failure" /\ lastAnswer'.tab = VIDEO_GENERATOR
          /\ KeyNotFound(lastAnswer'.message))
          => /\ wf'.error = KeyMessage
             /\ ErrorShown(VIDEO_GENERATOR, wf')
             /\ ~wf'.apiKeyReady
     /\ (activeTab = VIDEO_GENERATOR /\ activeTab' = VIDEO_GENERATOR
          /\ wf.error = KeyMessage /\ ~wf.apiKeyReady /\ wf'.apiKeyReady)
          => lastEvent' = "handleSelectKey"]_vars

\* C22: while the mounted instance awaits a call, no step changes its
\* prompt or its image slots.
C22_InputsFrozen ==
  [][((wf.isLoading \/ wf.isEnhancing) /\ (wf'.isLoading \/ wf'.isEnhancing)
      /\ activeTab' = activeTab)
     => /\ wf'.prompt = wf.prompt
        /\ wf'.imgA = wf.imgA /\ wf'.imgB = wf.imgB
        /\ wf'.clothingImages = wf.clothingImages]_vars

\* C23: a workflow that holds an error and awaits no call holds no result.
C23_FailedClearsResult ==
  (phase = "idle" /\ activeTab \in ServiceTabs /\ wf.error # ""
   /\ InFlightCalls = {})
  => ~wf.result.held

\* C24: a response installs its result with saved false; while a result is
\* held its image stays and saved never goes back to false; saved becomes
\* true only by the save handler; the result goes away only when a
\* generation starts or the component is unmounted.
C24_SavedMonotone ==
  [][/\ (lastEvent' = "response" /\ lastAnswer'.kind = "generate")
          => (wf'.result.held /\ ~wf'.result.saved)
     /\ (wf.result.held /\ wf'.result.held /\ lastEvent' # "response")
          => /\ wf.result.saved => wf'.result.saved
             /\ wf'.result.file = wf.result.file
     /\ (wf.result.held /\ ~wf.result.saved /\ wf'.result.saved)
          => lastEvent' = "handleSaveToGallery"
     /\ (wf.result.held /\ ~wf'.result.held)
          => lastEvent' \in {"handleGenerate", "select tab", "stop",
                             "handleOutfitCreated"}]_vars

\* Save was clicked again on a style-transfer result already saved: it is
\* still held and saved.
C24_Witness ==
  /\ lastEvent = "handleSaveToGallery"
  /\ activeTab = STYLE_TRANSFER
  /\ wf.result.held /\ wf.result.saved
  /\ wf.result.clicks = 2
  /\ queue = <<>>

\* C25: a save triggered while no result is held, a call is awaited, an
\* error is held or the result is saved leaves the gallery store as it was;
\* a save that takes effect changes nothing of the workflow but saved.
C25_SaveOnlyInSucceeded ==
  [][lastEvent' = "handleSaveToGallery"
     => /\ ~(wf.result.held /\ ~wf.result.saved /\ InFlightCalls = {}
             /\ wf.error = "")
             => (queue' = queue /\ galleryImages' = galleryImages)
        /\ queue' # queue
             => /\ wf'.result.saved
                /\ wf'.result.file = wf.result.file
                /\ wf'.error = wf.error
                /\ wf'.prompt = wf.prompt
                /\ wf'.imgA = wf.imgA /\ wf'.imgB = wf.imgB
                /\ wf'.clothingImages = wf.clothingImages]_vars

\* C26: a render that applies one remove(id) to a list holding id leaves the
\* list it had without one entry, the one with that id: every other entry is
\* still there, as it was and in the same order.
C26_RemoveOnlyMatching ==
  (/\ lastEvent = "render" /\ phase = "idle"
   /\ Len(lastRender.queue) = 1
   /\ lastRender.queue[1].op = "del"
   /\ IsArray(lastRender.before)
   /\ lastRender.queue[1].id \in Ids(lastRender.before.v))
  => LET prev == lastRender.before.v
         id == lastRender.queue[1].id
     IN \E k \in 1..Len(prev) :
          /\ prev[k].id = id
          /\ galleryImages =
               Array(SubSeq(prev, 1, k - 1) \o SubSeq(prev, k + 1, Len(prev)))

\* C27: from the start of a page load until the render that applies the
\* loaded list, the record still reads what it read at the start.
C27_StartupKeepsRecord ==
  (/\ loadedFrom.has
   /\ \/ phase \in {"load", "persist"}
      \/ \E i \in 1..Len(queue) : queue[i].op = "set")
  => localStorage = JSONstringify(loadedFrom.val)

\* C28: while isLoading no result is held, so none is saved; a result
\* appears, or is replaced, only in the step in which the mounted instance
\* receives the answer of the generate call it issued last.
C28_LoadingNoResult ==
  /\ [](wf.isLoading => (~wf.result.held /\ ~wf.result.saved))
  /\ [][(/\ wf'.result.held
         /\ (~wf.result.held \/ wf'.result.file # wf.result.file))
        => /\ lastEvent' = "response"
           /\ lastAnswer'.live /\ lastAnswer'.latest
           /\ lastAnswer'.kind = "generate"
           /\ lastAnswer'.tab = activeTab
           /\ activeTab' = activeTab
           /\ wf.isLoading /\ ~wf'.isLoading]_vars

\* The mounted instance has just installed the result of its call while the
\* call of an instance that is gone is still out.
C28_Witness ==
  /\ lastEvent = "response"
  /\ lastAnswer.live /\ lastAnswer.latest
  /\ wf.result.held /\ ~wf.isLoading
  /\ \E i \in 1..Len(requests) :
       ~requests[i].live /\ requests[i].kind = "generate"

\* C29: the gallery entry a save of the image generator or the image editor
\* creates carries the prompt the call that produced the result was given.
C29_SavedPrompt ==
  [][(lastEvent' = "handleSaveToGallery" /\ Len(queue') > Len(queue)
      /\ activeTab \in {IMAGE_GENERATOR, IMAGE_EDITOR})
     => queue'[Len(queue')].img.prompt = wf.asked]_vars

\* C30: in OutfitStudio the clothing list the workflow holds is the list of
\* previews shown, holds every file of a selection whose reading completed
\* and that the user did not remove, and holds no file the user removed.
C30_IntakeRaceFree ==
  activeTab = OUTFIT_STUDIO =>
    LET reported == {wf.clothingImages[k] : k \in 1..Len(wf.clothingImages)}
    IN /\ wf.clothingImages = wf.previews
       /\ (wf.completed \ wf.removed) \subseteq reported
       /\ reported \cap wf.removed = {}

====
